---- MODULE Spec2Model ----
(***************************************************************************)
(* Model of two analysis classes of qiskit-experiments:                    *)
(*                                                                         *)
(*   CompositeAnalysis._run_analysis                                       *)
(*       framework/composite/composite_analysis.py                         *)
(*   QuantumVolumeAnalysis._run_analysis, _calc_ideal_heavy_output,        *)
(*       _calc_exp_heavy_output_probability, _calc_z_value,                *)
(*       _calc_confidence_level, _calc_quantum_volume                      *)
(*       library/quantum_volume/qv_analysis.py                             *)
(*                                                                         *)
(* Three specifications share the module:                                  *)
(*   Spec       the composite pass over a tree of experiment data,         *)
(*              executed statement by statement with an explicit call      *)
(*              stack;                                                     *)
(*   SpecHeavy  the two static functions _calc_ideal_heavy_output and      *)
(*              _calc_exp_heavy_output_probability, called one after the   *)
(*              other on the probabilities and the counts of a trial;      *)
(*   SpecQV     QuantumVolumeAnalysis._run_analysis: the loop over the     *)
(*              trials of the data, which fills the list of heavy output   *)
(*              probabilities, and the verdict of _calc_quantum_volume on  *)
(*              that list and on the number of trials.                     *)
(* Real numbers are exact rationals <<numerator, denominator>> in lowest   *)
(* terms.  The one comparison of floating-point values whose two sides     *)
(* can have the same exact value, mean_hop > threshold, is then decided by *)
(* the rounding of the build: the model admits both outcomes there.        *)
(***************************************************************************)
EXTENDS Integers, Sequences, FiniteSets

VARIABLES
    \* ---- composite pass: the experiment tree (inputs) ----
    num_nodes,        \* number of experiment-data containers in the tree
    parent,           \* parent[n]: the container owning n (0 for node 1)
    kind,             \* kind[n]: "Composite" or "Leaf" data container
    fails,            \* leaf containers whose own analysis raises
    target,           \* the container handed to CompositeAnalysis._run_analysis
    \* ---- composite pass: execution state ----
    pc,               \* "init", "running", "raising", "returned", "raised"
    stack,            \* call stack, innermost frame last
    analysis_results, \* analysis_results[n]: results attached to container n
    invoked,          \* invoked[n]: number of run_analysis calls on n
    log,              \* history of <<"start"|"end"|"append", n>> events
    ret,              \* value returned by the outermost call
    err,              \* exception that left the outermost call
    \* ---- calls of the two heavy-output functions ----
    hpc,              \* "input", "heavy", "done", "raised"
    depth,            \* the argument depth of _calc_ideal_heavy_output
    probabilities_vector, \* ideal probabilities (integer weights)
    counts,           \* data["counts"]: bitstring -> occurrences
    heavy_strings,    \* value returned by _calc_ideal_heavy_output
    hop,              \* value returned by _calc_exp_heavy_output_probability
    \* ---- QuantumVolumeAnalysis._run_analysis ----
    qpc,              \* "loop", "body", "done", "raised"
    qv_depth,         \* the local depth: experiment.num_qubits
    num_trials,       \* len(data)
    trial_ix,         \* number of trials the loop has taken from data
    data_trial,       \* the trial record of the current iteration
    heavy_output,     \* heavy output of the current iteration
    heavy_output_prob_exp, \* heavy output probabilities of the trials so far
    above_threshold,  \* the value of mean_hop > threshold at line 199
    z_value,          \* the local z_value of _calc_quantum_volume
    result,           \* the dict returned by _calc_quantum_volume
    warnings          \* messages passed to warnings.warn, in order

treeVars == <<num_nodes, parent, kind, fails, target>>
compVars == <<pc, stack, analysis_results, invoked, log, ret, err>>
heavyVars == <<hpc, depth, probabilities_vector, counts, heavy_strings, hop>>
qvVars ==
    <<qpc, qv_depth, num_trials, trial_ix, data_trial, heavy_output,
      heavy_output_prob_exp, above_threshold, z_value, result, warnings>>
vars == <<treeVars, compVars, heavyVars, qvVars>>

None == "None"

(***************************************************************************)
(* Bounds                                                                  *)
(***************************************************************************)
MaxNodes == 5

(***************************************************************************)
(* The experiment tree.  A container is owned by exactly one parent;       *)
(* children are indexed in ascending node order.                            *)
(***************************************************************************)
Nodes == 1..num_nodes

RECURSIVE SortedSeq(_)
SortedSeq(S) ==
    IF S = {} THEN <<>>
    ELSE LET m == CHOOSE x \in S : \A y \in S : x <= y
         IN  <<m>> \o SortedSeq(S \ {m})

\* component_experiment_data(i) for i in range(num_experiments), as a sequence
Children(n) == SortedSeq({c \in Nodes : parent[c] = n})

\* comp_exp.num_experiments
num_experiments(n) == Len(Children(n))

\* the children handed out in descending index order
component_experiment_data_rev(n, i) == Children(n)[Len(Children(n)) - i]

\* experiment_data.component_experiment_data(i), i counted from 0
component_experiment_data(n, i) == Children(n)[i + 1]

RECURSIVE Descendants(_)
Descendants(n) ==
    LET cs == {c \in Nodes : parent[c] = n}
    IN  cs \cup UNION {Descendants(c) : c \in cs}

TypeLabels == <<"A", "B", "C">>

\* expdata.experiment_type
experiment_type(n) ==
    IF kind[n] = "Composite" THEN "Composite" ELSE TypeLabels[((n - 1) % 3) + 1]

\* expdata.experiment_id
experiment_id(n) == <<"id", n>>

\* expdata.experiment.physical_qubits
physical_qubits(n) == IF n % 3 = 0 THEN <<n - 1, n>> ELSE <<n - 1>>

(***************************************************************************)
(* Values                                                                  *)
(***************************************************************************)
AnalysisResultData(d) == [pytype |-> "AnalysisResultData", data |-> d]

PyList(items) == [pytype |-> "list", items |-> items]

\* the result a leaf experiment's own analysis produces for container n
LeafResult(n) == AnalysisResultData([value |-> n])

\* the type check left out
IsCompositeData_mut(n) == TRUE

\* isinstance(experiment_data, CompositeExperimentData)
IsCompositeData(n) == kind[n] = "Composite"

Frame(n, a) ==
    [node |-> n, analysis |-> a, at |-> "entry", i |-> 0,
     sub_types |-> <<>>, sub_ids |-> <<>>, sub_qubits |-> <<>>, value |-> None]

Top == stack[Len(stack)]

SetTop(f) == [stack EXCEPT ![Len(stack)] = f]

Pop == SubSeq(stack, 1, Len(stack) - 1)

(***************************************************************************)
(* Idle values of the two quantum-volume components                        *)
(***************************************************************************)
HeavyIdle ==
    /\ hpc = "idle" /\ depth = 0 /\ probabilities_vector = <<>>
    /\ counts = <<>> /\ heavy_strings = <<>> /\ hop = None

QVIdle ==
    /\ qpc = "idle" /\ qv_depth = 0 /\ num_trials = 0 /\ trial_ix = 0
    /\ data_trial = None /\ heavy_output = None
    /\ heavy_output_prob_exp = <<>> /\ above_threshold = None
    /\ z_value = None
    /\ result = None /\ warnings = <<>>

(***************************************************************************)
(* Composite pass                                                          *)
(***************************************************************************)
Trees ==
    {t \in [num : 1..MaxNodes, par : UNION {[1..k -> 0..k] : k \in 1..MaxNodes}] :
        /\ DOMAIN t.par = 1..t.num
        /\ t.par[1] = 0
        /\ \A c \in 2..t.num : t.par[c] \in 1..(c - 1)}

Init ==
    /\ \E t \in Trees : num_nodes = t.num /\ parent = t.par
    /\ kind \in [Nodes -> {"Leaf", "Composite"}]
    /\ \A n \in Nodes : (\E c \in Nodes : parent[c] = n) => kind[n] = "Composite"
    /\ fails \in SUBSET {n \in Nodes : kind[n] = "Leaf"}
    /\ target \in Nodes
    /\ pc = "init"
    /\ stack = <<>>
    /\ analysis_results = [n \in Nodes |-> <<>>]
    /\ invoked = [n \in Nodes |-> 0]
    /\ log = <<>>
    /\ ret = None
    /\ err = None
    /\ HeavyIdle
    /\ QVIdle

\* the caller hands the target container to CompositeAnalysis._run_analysis
Call ==
    /\ pc = "init"
    /\ pc' = "running"
    /\ stack' = <<Frame(target, "composite")>>
    /\ UNCHANGED <<analysis_results, invoked, log, ret, err>>

\* lines 44-45: the data is not composite, raise QiskitError
RaiseNotComposite ==
    /\ pc = "running"
    /\ Top.analysis = "composite" /\ Top.at = "entry"
    /\ ~IsCompositeData(Top.node)
    /\ pc' = "raising"
    /\ err' = "QiskitError"
    /\ UNCHANGED <<stack, analysis_results, invoked, log, ret>>

\* lines 44-54: the check passes, the three lists start empty
EnterLoop ==
    /\ pc = "running"
    /\ Top.analysis = "composite" /\ Top.at = "entry"
    /\ IsCompositeData(Top.node)
    /\ stack' = SetTop([Top EXCEPT !.at = "loop", !.i = 0, !.sub_types = <<>>,
                                   !.sub_ids = <<>>, !.sub_qubits = <<>>])
    /\ UNCHANGED <<pc, analysis_results, invoked, log, ret, err>>

\* the analysis class exp.run_analysis dispatches to for container c
AnalysisOf(c) == IF kind[c] = "Composite" THEN "composite" ELSE "leaf"

\* every iteration analyses the data of child 0
InvokeChild_mut ==
    /\ pc = "running"
    /\ Top.analysis = "composite" /\ Top.at = "loop"
    /\ Top.i < num_experiments(Top.node)
    /\ LET c == component_experiment_data(Top.node, 0)
       IN  /\ stack' = Append(SetTop([Top EXCEPT !.at = "call"]),
                              Frame(c, AnalysisOf(c)))
           /\ invoked' = [invoked EXCEPT ![c] = @ + 1]
           /\ log' = Append(log, <<"start", c>>)
    /\ UNCHANGED <<pc, analysis_results, ret, err>>

\* lines 55-59: exp.run_analysis(expdata, **options) for child i
InvokeChild ==
    /\ pc = "running"
    /\ Top.analysis = "composite" /\ Top.at = "loop"
    /\ Top.i < num_experiments(Top.node)
    /\ LET c == component_experiment_data(Top.node, Top.i)
       IN  /\ stack' = Append(SetTop([Top EXCEPT !.at = "call"]),
                              Frame(c, AnalysisOf(c)))
           /\ invoked' = [invoked EXCEPT ![c] = @ + 1]
           /\ log' = Append(log, <<"start", c>>)
    /\ UNCHANGED <<pc, analysis_results, ret, err>>

\* a leaf experiment's own analysis: returns its result or raises
LeafRunAnalysis ==
    /\ pc = "running"
    /\ Top.analysis = "leaf" /\ Top.at = "entry"
    /\ IF Top.node \in fails
       THEN /\ pc' = "raising"
            /\ err' = "AnalysisError"
            /\ UNCHANGED stack
       ELSE /\ stack' = SetTop([Top EXCEPT !.at = "done",
                                  !.value = <<PyList(<<LeafResult(Top.node)>>), None>>])
            /\ UNCHANGED <<pc, err>>
    /\ UNCHANGED <<analysis_results, invoked, log, ret>>

\* the aggregate returned bare instead of wrapped in a list
BuildResult_mut ==
    /\ pc = "running"
    /\ Top.analysis = "composite" /\ Top.at = "loop"
    /\ Top.i >= num_experiments(Top.node)
    /\ LET result_data == [experiment_types |-> Top.sub_types,
                           experiment_ids |-> Top.sub_ids,
                           experiment_qubits |-> Top.sub_qubits]
       IN  stack' = SetTop([Top EXCEPT !.at = "done",
                   !.value = <<AnalysisResultData(result_data), None>>])
    /\ UNCHANGED <<pc, analysis_results, invoked, log, ret, err>>

\* lines 68-74: the loop is over, build and return the aggregate
BuildResult ==
    /\ pc = "running"
    /\ Top.analysis = "composite" /\ Top.at = "loop"
    /\ Top.i >= num_experiments(Top.node)
    /\ LET result_data == [experiment_types |-> Top.sub_types,
                           experiment_ids |-> Top.sub_ids,
                           experiment_qubits |-> Top.sub_qubits]
       IN  stack' = SetTop([Top EXCEPT !.at = "done",
                   !.value = <<PyList(<<AnalysisResultData(result_data)>>), None>>])
    /\ UNCHANGED <<pc, analysis_results, invoked, log, ret, err>>

\* the outermost _run_analysis returns to its caller
ReturnOuter ==
    /\ pc = "running"
    /\ Len(stack) = 1 /\ Top.at = "done"
    /\ pc' = "returned"
    /\ ret' = Top.value
    /\ stack' = <<>>
    /\ UNCHANGED <<analysis_results, invoked, log, err>>

\* run_analysis stores what the child's _run_analysis returned on the child's
\* own data container
AddAnalysisResults(res, n, value) ==
    [res EXCEPT ![n] = @ \o (IF value[1].pytype = "list" THEN value[1].items
                                                         ELSE <<value[1]>>)]

\* exp.run_analysis(expdata) of line 59 returns into the loop body
ReturnChild ==
    /\ pc = "running"
    /\ Len(stack) > 1 /\ Top.at = "done"
    /\ analysis_results' = AddAnalysisResults(analysis_results, Top.node, Top.value)
    /\ log' = Append(log, <<"end", Top.node>>)
    /\ stack' = [Pop EXCEPT ![Len(stack) - 1].at = "append"]
    /\ UNCHANGED <<pc, invoked, ret, err>>

\* the identifier of the composite itself appended in place of the child's
AppendMetadata_mut ==
    /\ pc = "running"
    /\ Top.analysis = "composite" /\ Top.at = "append"
    /\ LET expdata == component_experiment_data(Top.node, Top.i)
       IN  /\ stack' = SetTop([Top EXCEPT
                   !.sub_types = Append(@, experiment_type(expdata)),
                   !.sub_ids = Append(@, experiment_id(Top.node)),
                   !.sub_qubits = Append(@, physical_qubits(expdata)),
                   !.i = @ + 1,
                   !.at = "loop"])
           /\ log' = Append(log, <<"append", expdata>>)
    /\ UNCHANGED <<pc, analysis_results, invoked, ret, err>>

\* lines 64-66, then the next iteration of the for loop
AppendMetadata ==
    /\ pc = "running"
    /\ Top.analysis = "composite" /\ Top.at = "append"
    /\ LET expdata == component_experiment_data(Top.node, Top.i)
       IN  /\ stack' = SetTop([Top EXCEPT
                   !.sub_types = Append(@, experiment_type(expdata)),
                   !.sub_ids = Append(@, experiment_id(expdata)),
                   !.sub_qubits = Append(@, physical_qubits(expdata)),
                   !.i = @ + 1,
                   !.at = "loop"])
           /\ log' = Append(log, <<"append", expdata>>)
    /\ UNCHANGED <<pc, analysis_results, invoked, ret, err>>

\* the call of line 59 wrapped in a handler that swallows the exception
Propagate_mut ==
    /\ pc = "raising"
    /\ IF Len(stack) = 1
       THEN stack' = Pop /\ pc' = "raised"
       ELSE stack' = [Pop EXCEPT ![Len(stack) - 1].at = "append"] /\ pc' = "running"
    /\ UNCHANGED <<analysis_results, invoked, log, ret, err>>

\* lines 55-66 hold no exception handler: a raised exception leaves the
\* innermost frame, and the outermost frame hands it to the caller
Propagate ==
    /\ pc = "raising"
    /\ stack' = Pop
    /\ pc' = IF Len(stack) = 1 THEN "raised" ELSE "raising"
    /\ UNCHANGED <<analysis_results, invoked, log, ret, err>>

Next ==
    \/ (Call /\ UNCHANGED <<treeVars, heavyVars, qvVars>>)
    \/ (RaiseNotComposite /\ UNCHANGED <<treeVars, heavyVars, qvVars>>)
    \/ (EnterLoop /\ UNCHANGED <<treeVars, heavyVars, qvVars>>)
    \/ (InvokeChild /\ UNCHANGED <<treeVars, heavyVars, qvVars>>)
    \/ (LeafRunAnalysis /\ UNCHANGED <<treeVars, heavyVars, qvVars>>)
    \/ (BuildResult /\ UNCHANGED <<treeVars, heavyVars, qvVars>>)
    \/ (ReturnOuter /\ UNCHANGED <<treeVars, heavyVars, qvVars>>)
    \/ (ReturnChild /\ UNCHANGED <<treeVars, heavyVars, qvVars>>)
    \/ (AppendMetadata /\ UNCHANGED <<treeVars, heavyVars, qvVars>>)
    \/ (Propagate /\ UNCHANGED <<treeVars, heavyVars, qvVars>>)

Spec == Init /\ [][Next]_vars

(***************************************************************************)
(* Exact rational arithmetic                                               *)
(***************************************************************************)
Abs(x) == IF x < 0 THEN -x ELSE x

RECURSIVE GCD(_, _)
GCD(a, b) == IF b = 0 THEN a ELSE GCD(b, a % b)

\* the rational n/d in lowest terms with a positive denominator
Rat(n, d) ==
    LET g == GCD(Abs(n), Abs(d))
        s == IF d < 0 THEN -1 ELSE 1
    IN  <<(s * n) \div g, (s * d) \div g>>

RatAdd(a, b) == Rat(a[1] * b[2] + b[1] * a[2], a[2] * b[2])
RatSub(a, b) == Rat(a[1] * b[2] - b[1] * a[2], a[2] * b[2])
RatMul(a, b) == Rat(a[1] * b[1], a[2] * b[2])
RatDiv(a, b) == Rat(a[1] * b[2], a[2] * b[1])
\* the sign of a/b - c/d for b, d > 0, by the integer parts of the two
\* fractions and then, turned over, by their remainders: no product is formed
RECURSIVE Cmp(_, _, _, _)
Cmp(a, b, c, d) ==
    IF a \div b # c \div d THEN (IF a \div b > c \div d THEN 1 ELSE -1)
    ELSE IF a % b = 0 \/ c % d = 0
         THEN (IF a % b > 0 THEN 1 ELSE IF c % d > 0 THEN -1 ELSE 0)
         ELSE Cmp(d, c % d, b, a % b)

RatGt(a, b) == Cmp(a[1], a[2], b[1], b[2]) > 0
RatGeq(a, b) == Cmp(a[1], a[2], b[1], b[2]) >= 0
RatSign(a) == IF a[1] > 0 THEN 1 ELSE IF a[1] < 0 THEN -1 ELSE 0

RECURSIVE Pow2(_)
Pow2(n) == IF n = 0 THEN 1 ELSE 2 * Pow2(n - 1)

(***************************************************************************)
(* The heavy-output functions                                              *)
(***************************************************************************)
MaxDepth == 2
MaxWeight == 4
MaxShots == 2

\* "{0:b}".format(b): the binary digits of b, "0" for b = 0
RECURSIVE Bin(_)
Bin(b) ==
    IF b < 2 THEN (IF b = 0 THEN "0" ELSE "1")
    ELSE Bin(b \div 2) \o Bin(b % 2)

RECURSIVE ZeroFill(_, _)
ZeroFill(s, width) == IF Len(s) >= width THEN s ELSE ZeroFill("0" \o s, width)

\* ("{0:0%db}" % depth).format(b)
format_spec(d, b) == ZeroFill(Bin(b), d)

RECURSIVE Insert(_, _)
Insert(x, s) ==
    IF s = <<>> THEN <<x>>
    ELSE IF x <= Head(s) THEN <<x>> \o s
    ELSE <<Head(s)>> \o Insert(x, Tail(s))

RECURSIVE Sort(_)
Sort(s) == IF s = <<>> THEN <<>> ELSE Insert(Head(s), Sort(Tail(s)))

\* np.median: the middle element, or the mean of the two middle elements
median(v) ==
    LET s == Sort(v)
        n == Len(v)
    IN  IF n % 2 = 1 THEN Rat(s[(n + 1) \div 2], 1)
        ELSE Rat(s[n \div 2] + s[(n \div 2) + 1], 2)

\* the comparison of line 102 with >= in place of >
IsHeavy_mut(p, med) == RatGeq(Rat(p, 1), med)

\* the comparison of line 102
IsHeavy(p, med) == RatGt(Rat(p, 1), med)

\* lines 92-106
calc_ideal_heavy_output(pv, d) ==
    LET keys == [i \in 1..Pow2(d) |-> format_spec(d, i - 1)]
        all_output_prob_ideal ==
            [k \in {keys[i] : i \in 1..Pow2(d)} |->
                pv[CHOOSE i \in 1..Pow2(d) :
                     /\ keys[i] = k
                     /\ \A j \in 1..Pow2(d) : keys[j] = k => j <= i]]
        median_probabilities == median(pv)
        heavy(x) == IsHeavy(all_output_prob_ideal[x], median_probabilities)
    IN  SelectSeq(keys, heavy)

RECURSIVE SumSet(_, _)
SumSet(f, S) ==
    IF S = {} THEN 0
    ELSE LET k == CHOOSE x \in S : TRUE IN f[k] + SumSet(f, S \ {k})

\* a default of 1 for an absent bitstring
CountsGet_mut(c, value) == IF value \in DOMAIN c THEN c[value] ELSE 1

\* data["counts"].get(value, 0)
CountsGet(c, value) == IF value \in DOMAIN c THEN c[value] ELSE 0

RECURSIVE SumHeavy(_, _)
SumHeavy(c, hs) ==
    IF hs = <<>> THEN 0 ELSE CountsGet(c, Head(hs)) + SumHeavy(c, Tail(hs))

\* lines 118-124; a zero shot count makes the division raise
calc_exp_heavy_output_probability(c, heavy_outputs) ==
    LET circ_shots == SumSet(c, DOMAIN c)
        heavy_output_counts == SumHeavy(c, heavy_outputs)
    IN  IF circ_shots = 0 THEN "ZeroDivisionError"
        ELSE Rat(heavy_output_counts, circ_shots)

CompIdle ==
    /\ num_nodes = 0 /\ parent = <<>> /\ kind = <<>> /\ fails = {} /\ target = 0
    /\ pc = "idle" /\ stack = <<>> /\ analysis_results = <<>> /\ invoked = <<>>
    /\ log = <<>> /\ ret = None /\ err = None

Bitstrings(d) == {format_spec(d, b) : b \in 0..(Pow2(d) - 1)}

\* the arguments of the two calls: the counts of one executed circuit: every measured bitstring occurred at
\* least once, at most MaxShots shots in all (none at all for an empty dict)
CountsOf(d) ==
    UNION {{c \in [K -> 1..MaxShots] : SumSet(c, K) <= MaxShots} :
             K \in {S \in SUBSET Bitstrings(d) : Cardinality(S) <= MaxShots}}

\* the sequences of n non-negative integer weights that sum to at most budget
RECURSIVE Weights(_, _)
Weights(n, budget) ==
    IF n = 0 THEN {<<>>}
    ELSE UNION {{<<w>> \o v : v \in Weights(n - 1, budget - w)} : w \in 0..budget}

\* ideal probabilities in units of 1 / (their sum): not all zero
ProbabilityVectors(d) ==
    {v \in Weights(Pow2(d), MaxWeight) : \E i \in 1..Pow2(d) : v[i] > 0}

InitHeavy ==
    /\ hpc = "input"
    /\ depth \in 0..MaxDepth
    /\ counts \in CountsOf(depth)
    /\ probabilities_vector \in ProbabilityVectors(depth)
    /\ heavy_strings = <<>>
    /\ hop = None
    /\ CompIdle
    /\ QVIdle

\* a call of _calc_ideal_heavy_output, lines 83-106
CalcIdealHeavyOutput ==
    /\ hpc = "input"
    /\ heavy_strings' = calc_ideal_heavy_output(probabilities_vector, depth)
    /\ hpc' = "heavy"
    /\ UNCHANGED <<depth, probabilities_vector, counts, hop>>

\* a call of _calc_exp_heavy_output_probability on the heavy output of the
\* first call, lines 109-124
CalcExpHeavyOutputProbability ==
    /\ hpc = "heavy"
    /\ hop' = calc_exp_heavy_output_probability(counts, heavy_strings)
    /\ hpc' = IF hop' = "ZeroDivisionError" THEN "raised" ELSE "done"
    /\ UNCHANGED <<depth, probabilities_vector, counts, heavy_strings>>

NextHeavy ==
    \/ (CalcIdealHeavyOutput /\ UNCHANGED <<treeVars, compVars, qvVars>>)
    \/ (CalcExpHeavyOutputProbability /\ UNCHANGED <<treeVars, compVars, qvVars>>)

SpecHeavy == InitHeavy /\ [][NextHeavy]_vars

(***************************************************************************)
(* The quantum volume verdict, _calc_quantum_volume                        *)
(***************************************************************************)
MaxRemaining == 2
HopDen == 4
MaxTrials == 150
MinTrials == 100

\* x ** 0.5 of a rational x >= 0, kept as the square root of x
Sqrt(x) == [kind |-> "sqrt", of |-> x]

\* the float literal 1e-10
Epsilon == [kind |-> "pow10", exp |-> -10]

\* the zero test never taken
IsZero_mut(sigma) == FALSE

\* line 138: sigma == 0
IsZero(sigma) ==
    IF sigma.kind = "sqrt" THEN sigma.of[1] = 0 ELSE FALSE

\* n * 10^e >= m for integers n, m and e >= 0, without forming 10^e
RECURSIVE ScaledGeq(_, _, _)
ScaledGeq(n, e, m) ==
    IF e = 0 THEN n >= m ELSE ScaledGeq(n, e - 1, -((-m) \div 10))

\* a >= k * sigma for a rational a and an integer k
GeqTimes(a, k, sigma) ==
    IF sigma.kind = "sqrt"
    THEN LET lhs == RatMul(a, a)
             rhs == RatMul(Rat(k * k, 1), sigma.of)
         IN  IF k >= 0 THEN RatSign(a) >= 0 /\ RatGeq(lhs, rhs)
             ELSE RatSign(a) >= 0 \/ RatGeq(rhs, lhs)
    ELSE ScaledGeq(a[1], -sigma.exp, k * a[2])

\* a > k * sigma
GtTimes(a, k, sigma) ==
    IF sigma.kind = "sqrt"
    THEN LET lhs == RatMul(a, a)
             rhs == RatMul(Rat(k * k, 1), sigma.of)
         IN  IF k >= 0 THEN RatSign(a) > 0 /\ RatGt(lhs, rhs)
             ELSE RatSign(a) >= 0 \/ RatGt(rhs, lhs)
    ELSE ~ScaledGeq(-a[1], -sigma.exp, -(k * a[2]))

\* the sum of a list of rationals, by halves
RECURSIVE SumRat(_)
SumRat(s) ==
    IF s = <<>> THEN Rat(0, 1)
    ELSE IF Len(s) = 1 THEN s[1]
    ELSE LET h == Len(s) \div 2
         IN  RatAdd(SumRat(SubSeq(s, 1, h)), SumRat(SubSeq(s, h + 1, Len(s))))

\* np.mean
mean(s) == RatDiv(SumRat(s), Rat(Len(s), 1))

\* lines 138-145: z_value = (mean - 2 / 3) / sigma, returned with the warnings
calc_z_value(m, sigma) ==
    LET zero == IsZero(sigma)
        sigma1 == IF zero THEN Epsilon ELSE sigma
    IN  [z_value |-> [num |-> RatSub(m, Rat(2, 3)), den |-> sigma1],
         warned |-> IF zero THEN <<"Standard deviation sigma should not be zero.">>
                            ELSE <<>>]

\* the standard normal distribution function at -2 .. 2, in units of 1e-5,
\* rounded down and rounded up
PhiLo == [k \in -2..2 |->
            CASE k = -2 -> 2275 [] k = -1 -> 15865 [] k = 0 -> 50000
              [] k = 1 -> 84134 [] k = 2 -> 97724]
PhiHi == [k \in -2..2 |->
            CASE k = -2 -> 2276 [] k = -1 -> 15866 [] k = 0 -> 50000
              [] k = 1 -> 84135 [] k = 2 -> 97725]

SetMax(S) == CHOOSE x \in S : \A y \in S : y <= x
SetMin(S) == CHOOSE x \in S : \A y \in S : x <= y

\* line 162: 0.5 * (1 + erf(z_value / 2 ** 0.5)), as the interval [lo, hi] of
\* the table above that holds it (units of 1e-5)
calc_confidence_level(z) ==
    LET below == {k \in -2..2 : GeqTimes(z.num, k, z.den)}
        above == {k \in -2..2 : ~GtTimes(z.num, k, z.den)}
    IN  [lo |-> IF below = {} THEN 0 ELSE PhiLo[SetMax(below)],
         hi |-> IF above = {} THEN 100000 ELSE PhiHi[SetMin(above)]]

ResultKeys ==
    {"quantum volume", "qv success", "confidence", "heavy output probability",
     "mean hop", "sigma", "depth", "trials"}

\* the sample-size gate left out of the decision
Success_mut(above, t) == above

\* line 199: mean_hop > threshold and trials >= 100
Success(above, t) == above /\ t >= MinTrials

\* a = k * sigma: the two sides of a > k * sigma have the same exact value
EqTimes(a, k, sigma) == GeqTimes(a, k, sigma) /\ ~GtTimes(a, k, sigma)

\* line 199, mean_hop > threshold for threshold = 2 / 3 + z * sigma_hop of
\* line 191, as floating point evaluates it: where the exact values of
\* mean_hop and of the threshold are equal, the roundings of np.mean, of
\* ** 0.5 and of the sum decide, and rounded_above is what they give
MeanAboveThreshold(mean_hop, z, sigma_hop, rounded_above) ==
    LET a == RatSub(mean_hop, Rat(2, 3))
    IN  IF EqTimes(a, z, sigma_hop) THEN rounded_above
        ELSE GtTimes(a, z, sigma_hop)

\* lines 187-213, returned with the warnings in the order they are emitted
calc_quantum_volume(hops, d, t, rounded_above) ==
    LET mean_hop == mean(hops)
        sigma_hop == Sqrt(RatDiv(RatMul(mean_hop, RatSub(Rat(1, 1), mean_hop)),
                                 Rat(t, 1)))
        z == 2
        zv == calc_z_value(mean_hop, sigma_hop)
        confidence_level == calc_confidence_level(zv.z_value)
        warn100 ==
            IF t < MinTrials
            THEN <<"Must use at least 100 trials to consider Quantum Volume as successful.">>
            ELSE <<>>
        mean_above == MeanAboveThreshold(mean_hop, z, sigma_hop, rounded_above)
        success == Success(mean_above, t)
        quantum_volume == IF success THEN Pow2(d) ELSE 1
    IN  [z_value |-> zv.z_value,
         above |-> mean_above,
         warned |-> zv.warned \o warn100,
         result |->
           [k \in ResultKeys |->
              CASE k = "quantum volume" -> quantum_volume
                [] k = "qv success" -> success
                [] k = "confidence" -> confidence_level
                [] k = "heavy output probability" -> hops
                [] k = "mean hop" -> mean_hop
                [] k = "sigma" -> sigma_hop
                [] k = "depth" -> d
                [] k = "trials" -> t]]

(***************************************************************************)
(* QuantumVolumeAnalysis._run_analysis                                     *)
(***************************************************************************)
\* len(data) of the runs
TrialCounts == {1, 2, 50, 99, 100, 108, MaxTrials}

AllOnes(d) == format_spec(d, Pow2(d) - 1)
AllZeros(d) == format_spec(d, 0)

\* a trial record of HopDen shots, k of them on 1...1 and the others on
\* 0...0, whose ideal probabilities make 1...1 the only heavy string; the
\* metadata depth of a trial is the number of qubits of the experiment
TrialOf(d, k) ==
    [counts |-> [b \in {x \in {AllOnes(d), AllZeros(d)} :
                          IF x = AllOnes(d) THEN k > 0 ELSE k < HopDen} |->
                    IF b = AllOnes(d) THEN k ELSE HopDen - k],
     ideal_probabilities |-> [i \in 1..Pow2(d) |-> IF i = Pow2(d) THEN 1 ELSE 0],
     depth |-> d]

\* a trial record without any shot
EmptyTrial(d) ==
    [counts |-> <<>>,
     ideal_probabilities |-> [i \in 1..Pow2(d) |-> IF i = Pow2(d) THEN 1 ELSE 0],
     depth |-> d]

\* the trial records data can hold
TrialRecords(d) == {TrialOf(d, k) : k \in 0..HopDen} \cup {EmptyTrial(d)}

Repeat(x, n) == [i \in 1..n |-> x]

\* the number of trials the loop has taken when the model picks the run up:
\* all but the last MaxRemaining
TakenAtInit(n) == IF n <= MaxRemaining THEN 0 ELSE n - MaxRemaining

\* the loop of lines 63-69 is at its head with at most MaxRemaining trials of
\* the data to go: lines 58-61 have just run (no trial taken), or the trials
\* taken so far were all TrialOf(qv_depth, k) for one k
InitQV ==
    /\ qpc = "loop"
    /\ qv_depth \in 1..MaxDepth
    /\ num_trials \in TrialCounts
    /\ trial_ix = TakenAtInit(num_trials)
    /\ IF trial_ix = 0
       THEN /\ heavy_output_prob_exp = <<>>
            /\ data_trial = None
            /\ heavy_output = None
       ELSE \E k \in 0..HopDen :
               /\ heavy_output_prob_exp = Repeat(Rat(k, HopDen), trial_ix)
               /\ data_trial = TrialOf(qv_depth, k)
               /\ heavy_output = <<AllOnes(qv_depth)>>
    /\ above_threshold = None
    /\ z_value = None
    /\ result = None
    /\ warnings = <<>>
    /\ CompIdle
    /\ HeavyIdle

\* lines 63-66: the loop takes the next trial of data and computes its heavy
\* output from the trial's metadata
TrialHeavyOutput ==
    /\ qpc = "loop"
    /\ trial_ix < num_trials
    /\ \E t \in TrialRecords(qv_depth) :
         /\ data_trial' = t
         /\ heavy_output' = calc_ideal_heavy_output(t.ideal_probabilities, t.depth)
    /\ trial_ix' = trial_ix + 1
    /\ qpc' = "body"
    /\ UNCHANGED <<qv_depth, num_trials, heavy_output_prob_exp, above_threshold,
                   z_value, result, warnings>>

\* lines 67-69: the heavy output probability of the trial is appended to the
\* list; a trial without shots raises ZeroDivisionError out of _run_analysis
AppendHeavyOutputProbability ==
    /\ qpc = "body"
    /\ LET p == calc_exp_heavy_output_probability(data_trial.counts, heavy_output)
       IN  IF p = "ZeroDivisionError"
           THEN qpc' = "raised" /\ UNCHANGED heavy_output_prob_exp
           ELSE /\ qpc' = "loop"
                /\ heavy_output_prob_exp' = Append(heavy_output_prob_exp, p)
    /\ UNCHANGED <<qv_depth, num_trials, trial_ix, data_trial, heavy_output,
                   above_threshold, z_value, result, warnings>>

\* lines 71-73: the loop is over; _calc_quantum_volume is applied to the list,
\* to the depth and to len(data)
CalcQuantumVolume ==
    /\ qpc = "loop"
    /\ trial_ix = num_trials
    /\ \E rounded_above \in BOOLEAN :
         LET r == calc_quantum_volume(heavy_output_prob_exp, qv_depth,
                                      num_trials, rounded_above)
         IN  /\ z_value' = r.z_value
             /\ above_threshold' = r.above
             /\ result' = r.result
             /\ warnings' = warnings \o r.warned
    /\ qpc' = "done"
    /\ UNCHANGED <<qv_depth, num_trials, trial_ix, data_trial, heavy_output,
                   heavy_output_prob_exp>>

NextQV ==
    \/ (TrialHeavyOutput /\ UNCHANGED <<treeVars, compVars, heavyVars>>)
    \/ (AppendHeavyOutputProbability /\ UNCHANGED <<treeVars, compVars, heavyVars>>)
    \/ (CalcQuantumVolume /\ UNCHANGED <<treeVars, compVars, heavyVars>>)

SpecQV == InitQV /\ [][NextQV]_vars

(***************************************************************************)
(* Properties of the composite pass (specification Spec)                   *)
(***************************************************************************)
ChildSet(n) == {c \in Nodes : parent[c] = n}

\* the i-th immediate child of n: the child with i - 1 smaller siblings
NthChild(n, i) ==
    CHOOSE c \in ChildSet(n) : Cardinality({x \in ChildSet(n) : x < c}) = i - 1

\* d lists exactly the immediate children of n, in child index order
AggregateOf(n, d) ==
    LET k == Cardinality(ChildSet(n))
    IN  /\ Len(d.experiment_types) = k
        /\ Len(d.experiment_ids) = k
        /\ Len(d.experiment_qubits) = k
        /\ \A i \in 1..k :
             /\ d.experiment_types[i] = experiment_type(NthChild(n, i))
             /\ d.experiment_ids[i] = experiment_id(NthChild(n, i))
             /\ d.experiment_qubits[i] = physical_qubits(NthChild(n, i))

\* C1: a successful composite analysis of a node with n immediate children
\* returns an aggregate whose three sequences have exactly n entries, entry i
\* being the type, identifier and qubits of immediate child i; the same holds
\* of the aggregate of every nested composite, so descendants of a nested
\* composite child contribute nothing to the parent's aggregate.
C1_AggregateListsImmediateChildren ==
    /\ pc = "returned" => AggregateOf(target, ret[1].items[1].data)
    /\ \A n \in Nodes :
         (kind[n] = "Composite" /\ analysis_results[n] # <<>>)
            => AggregateOf(n, analysis_results[n][1].data)

\* a returned aggregate of a node with two or more children, one of them a
\* composite with children of its own
C1_Witness ==
    /\ pc = "returned"
    /\ Cardinality(ChildSet(target)) >= 2
    /\ \E c \in ChildSet(target) : ChildSet(c) # {}
    /\ Len(ret[1].items[1].data.experiment_ids) = Cardinality(ChildSet(target))

InLog(e) == \E k \in 1..Len(log) : log[k] = e

Pos(e) == CHOOSE k \in 1..Len(log) : log[k] = e

Before(e1, e2) == InLog(e1) /\ Pos(e1) < Pos(e2)

\* C2: in a successful run every container below the analysed node is
\* analysed exactly once (and no other container is); siblings are started in
\* ascending index order, child i and all its descendants finish before child
\* i+1 starts, and child i's metadata is appended only after child i's
\* analysis has returned.
C2_EachChildOnceInOrder ==
    /\ \A n \in Nodes : invoked[n] <= 1
    /\ pc = "returned" =>
         \A n \in Nodes :
            invoked[n] = (IF n \in Descendants(target) THEN 1 ELSE 0)
    /\ \A c1, c2 \in Nodes :
         (c1 < c2 /\ parent[c1] = parent[c2] /\ InLog(<<"start", c2>>)) =>
            /\ Before(<<"start", c1>>, <<"start", c2>>)
            /\ Before(<<"end", c1>>, <<"start", c2>>)
            /\ \A d \in Descendants(c1) :
                   Before(<<"end", d>>, <<"start", c2>>)
    /\ \A c \in Nodes :
         InLog(<<"append", c>>) => Before(<<"end", c>>, <<"append", c>>)
    /\ \A c \in Nodes :
         InLog(<<"end", c>>) =>
            /\ Before(<<"start", c>>, <<"end", c>>)
            /\ \A d \in Descendants(c) :
                   /\ Before(<<"start", c>>, <<"start", d>>)
                   /\ Before(<<"end", d>>, <<"end", c>>)

\* a successful run over a tree three levels deep below the analysed node
\* in which some node has two children
C2_Witness ==
    /\ pc = "returned"
    /\ \E a, b, c \in Nodes :
         parent[a] = target /\ parent[b] = a /\ parent[c] \in {target, a} /\ c > b
    /\ \A n \in Descendants(target) : invoked[n] = 1

Untouched ==
    /\ \A n \in Nodes : invoked[n] = 0 /\ analysis_results[n] = <<>>
    /\ log = <<>>
    /\ ret = None

\* C3: the composite analysis of a Leaf data container raises QiskitError
\* before any child analysis is invoked and before any aggregate sequence is
\* built; nothing is returned and no container is modified.
C3_LeafRejected ==
    kind[target] = "Leaf" =>
       /\ pc \in {"init", "running", "raising", "raised"}
       /\ Untouched
       /\ pc = "running" => (Len(stack) = 1 /\ Top.at = "entry" /\ Top.sub_types = <<>>
                              /\ Top.sub_ids = <<>> /\ Top.sub_qubits = <<>>)
       /\ pc \in {"raising", "raised"} => err = "QiskitError"

\* the QiskitError has reached the caller of an analysis of a leaf that sits
\* inside a larger tree
C3_Witness ==
    /\ kind[target] = "Leaf"
    /\ pc = "raised"
    /\ err = "QiskitError"
    /\ num_nodes > 1

\* the nodes on the path from n up to, and excluding, the analysed node
RECURSIVE PathUp(_)
PathUp(n) == IF n = target \/ n = 0 THEN {} ELSE {n} \cup PathUp(parent[n])

\* the leaf whose analysis raised: the last one started
FailedChild == log[Len(log)][2]

\* C4: once the analysis of a child has failed, the failure is on its way to
\* (or has reached) the caller through every enclosing composite, no later
\* sibling at any enclosing level is analysed, no aggregate is returned, and
\* the earlier siblings keep the result attached to their containers.
C4_FailurePropagates ==
    /\ \A f \in fails : invoked[f] > 0 =>
         \/ pc = "running" /\ Top.node = f /\ Top.at = "entry"
         \/ pc \in {"raising", "raised"} /\ err = "AnalysisError"
    /\ (pc \in {"raising", "raised"} /\ err = "AnalysisError") =>
         /\ ret = None
         /\ FailedChild \in fails
         /\ \A a \in PathUp(FailedChild) :
              /\ analysis_results[a] = <<>>
              /\ \A s \in ChildSet(parent[a]) :
                   /\ s > a => (invoked[s] = 0 /\ analysis_results[s] = <<>>)
                   /\ s < a => (invoked[s] = 1 /\ Len(analysis_results[s]) = 1)
    /\ pc = "raised" => stack = <<>>

\* a failure two levels down has reached the caller; an earlier sibling was
\* analysed and a later sibling exists
C4_Witness ==
    /\ pc = "raised"
    /\ err = "AnalysisError"
    /\ parent[FailedChild] # target
    /\ \E a \in PathUp(FailedChild) :
         /\ \E s \in ChildSet(parent[a]) : s < a /\ Len(analysis_results[s]) = 1
         /\ \E s \in ChildSet(parent[a]) : s > a

AggregateKeys == {"experiment_types", "experiment_ids", "experiment_qubits"}

\* C9 as stated: the first component of the returned pair is the aggregate
\* record itself, never a list, and the second component is None.
C9_ReturnsBareRecord ==
    pc = "returned" =>
       /\ ret[1].pytype = "AnalysisResultData"
       /\ ret[2] = None

\* C9 amended: the first component of the returned pair is a list holding
\* exactly one aggregate record, and the second component is None.
C9_ReturnsOneRecordList ==
    pc = "returned" =>
       /\ ret[1].pytype = "list"
       /\ Len(ret[1].items) = 1
       /\ ret[1].items[1].pytype = "AnalysisResultData"
       /\ DOMAIN ret[1].items[1].data = AggregateKeys
       /\ ret[2] = None

\* the analysis of a composite with children has returned
C9_Witness ==
    /\ pc = "returned"
    /\ ChildSet(target) # {}
    /\ ret[2] = None

\* the child the frame at stack position k is analysing
CurrentChild(k) == NthChild(stack[k].node, stack[k].i + 1)

\* every aggregate record holds the three metadata sequences and nothing else
AggregatesHoldMetadataOnly ==
    /\ pc = "returned" => DOMAIN ret[1].items[1].data = AggregateKeys
    /\ \A n \in Nodes : \A k \in 1..Len(analysis_results[n]) :
         kind[n] = "Composite" =>
            /\ DOMAIN analysis_results[n][k].data = AggregateKeys
            /\ \A j \in 1..Len(analysis_results[n][k].data.experiment_ids) :
                 /\ analysis_results[n][k].data.experiment_ids[j]
                      \in {experiment_id(c) : c \in Nodes}
                 /\ analysis_results[n][k].data.experiment_types[j]
                      \in {experiment_type(c) : c \in Nodes}

\* C10: a step that changes the container of n happens while every enclosing
\* composite is analysing the child that is n or an ancestor of n, so the
\* containers of all siblings of that child are left unchanged; and every
\* aggregate record carries types, ids and qubits only.
C10_WritesOwnContainerOnly ==
    /\ []AggregatesHoldMetadataOnly
    /\ [][\A n \in Nodes :
            analysis_results'[n] # analysis_results[n] =>
               /\ Len(stack) > 1
               /\ \A k \in 1..Len(stack) :
                    stack[k].at = "call" =>
                       n \in {CurrentChild(k)} \cup Descendants(CurrentChild(k))
               /\ \A m \in Nodes \ {n} : analysis_results'[m] = analysis_results[m]
         ]_vars

\* the second child of a node is being analysed after the first child's
\* container, which holds nested children, received its result
C10_Witness ==
    /\ pc = "running"
    /\ \E c1, c2 \in Nodes :
         /\ c1 < c2 /\ parent[c1] = parent[c2]
         /\ ChildSet(c1) # {}
         /\ Len(analysis_results[c1]) = 1
         /\ invoked[c2] = 1
         /\ analysis_results[c2] = <<>>

(***************************************************************************)
(* Properties of the heavy output of a trial (specification SpecHeavy)     *)
(***************************************************************************)
\* the binary digits of b in exactly w characters
RECURSIVE BitString(_, _)
BitString(b, w) ==
    IF w = 0 THEN ""
    ELSE BitString(b \div 2, w - 1) \o (IF b % 2 = 0 THEN "0" ELSE "1")

Indices == 1..Len(probabilities_vector)

\* the k-th smallest entry of the probability vector
OrderStat(k) ==
    CHOOSE x \in {probabilities_vector[i] : i \in Indices} :
        /\ Cardinality({i \in Indices : probabilities_vector[i] < x}) < k
        /\ Cardinality({i \in Indices : probabilities_vector[i] <= x}) >= k

\* twice the median of the probability vector
TwiceMedian ==
    LET n == Len(probabilities_vector)
    IN  IF n = 1 THEN 2 * probabilities_vector[1]
        ELSE OrderStat(n \div 2) + OrderStat((n \div 2) + 1)

HeavySet == {heavy_strings[i] : i \in 1..Len(heavy_strings)}

\* C6: the heavy strings are exactly the width-depth binary strings of the
\* indices whose probability is strictly greater than the median, each once;
\* an index whose probability equals the median is left out, so a uniform
\* vector has no heavy string.
C6_HeavyIsStrictlyAboveMedian ==
    hpc \in {"heavy", "done", "raised"} =>
       /\ HeavySet = {BitString(i - 1, depth) :
                        i \in {j \in Indices : 2 * probabilities_vector[j] > TwiceMedian}}
       /\ Cardinality(HeavySet) = Len(heavy_strings)
       /\ (\A i, j \in Indices : probabilities_vector[i] = probabilities_vector[j])
             => heavy_strings = <<>>

\* four outcomes, some of them heavy and some of them exactly at the median
C6_Witness ==
    /\ hpc = "heavy"
    /\ depth = 2
    /\ heavy_strings # <<>>
    /\ \E i \in Indices : 2 * probabilities_vector[i] = TwiceMedian

\* C8: for counts with a positive number of shots the heavy output
\* probability is the number of shots on heavy strings (a heavy string that
\* was never measured counts 0) over the number of all shots, and lies in
\* [0, 1].
C8_HeavyOutputProbability ==
    hpc = "done" =>
       LET shots == SumSet(counts, DOMAIN counts)
           heavy_shots == SumSet(counts, HeavySet \cap DOMAIN counts)
       IN  /\ shots > 0
           /\ hop[2] > 0
           /\ hop[1] * shots = heavy_shots * hop[2]
           /\ 0 <= hop[1] /\ hop[1] <= hop[2]

\* some heavy string was never measured, some was, and some shots fell on
\* strings that are not heavy
C8_Witness ==
    /\ hpc = "done"
    /\ \E h \in HeavySet : h \notin DOMAIN counts
    /\ 0 < hop[1] /\ hop[1] < hop[2]

(***************************************************************************)
(* Properties of the quantum volume verdict (specification SpecQV)         *)
(***************************************************************************)
\* the sum of the list in units of 1 / HopDen
RECURSIVE SumNumerators(_, _)
SumNumerators(s, n) ==
    IF n = 0 THEN 0
    ELSE IF n = 1 THEN s[1][1] * (HopDen \div s[1][2])
    ELSE SumNumerators(SubSeq(s, 1, n \div 2), n \div 2)
           + SumNumerators(SubSeq(s, (n \div 2) + 1, n), n - (n \div 2))

\* the mean of the list is MeanNum / MeanDen
MeanNum == SumNumerators(heavy_output_prob_exp, Len(heavy_output_prob_exp))
MeanDen == HopDen * Len(heavy_output_prob_exp)

\* the two sides of mean_hop > 2/3 + 2 * sqrt(mean_hop * (1 - mean_hop) /
\* trials), squared out: ThresholdGap is positive, zero or negative as the
\* square of mean_hop - 2/3 is above, at or below the square of 2 * sigma_hop
ThresholdGap ==
    (3 * MeanNum - 2 * MeanDen) * (3 * MeanNum - 2 * MeanDen) * num_trials
       - 36 * MeanNum * (MeanDen - MeanNum)

AboveThreshold == 3 * MeanNum > 2 * MeanDen /\ ThresholdGap > 0
AtThreshold == 3 * MeanNum >= 2 * MeanDen /\ ThresholdGap = 0

\* C5: success is true exactly when mean_hop > 2/3 + 2*sigma_hop and
\* trials >= 100 both hold, where the comparison is the one the program
\* makes: true when mean_hop is above the threshold, false when it is below,
\* and either where the two are exactly equal; quantum_volume is 2^depth on
\* success and 1 otherwise; with fewer than 100 trials the verdict is failure
\* and 1.  The trials are the trials of the data, one list entry each.
C5_SuccessIsConjunction ==
    qpc = "done" =>
       /\ num_trials = Len(heavy_output_prob_exp)
       /\ result["trials"] = num_trials
       /\ AboveThreshold => above_threshold = TRUE
       /\ ~AboveThreshold /\ ~AtThreshold => above_threshold = FALSE
       /\ result["qv success"] = (above_threshold /\ num_trials >= 100)
       /\ result["quantum volume"] = (IF result["qv success"] THEN 2 ^ qv_depth ELSE 1)
       /\ num_trials < 100 => (result["qv success"] = FALSE /\ result["quantum volume"] = 1)

\* a success that fewer trials would not have given, with a non-zero sigma
C5_Witness ==
    /\ qpc = "done"
    /\ result["qv success"] = TRUE
    /\ result["quantum volume"] = 4
    /\ AboveThreshold
    /\ MeanNum < MeanDen
    /\ (3 * MeanNum - 2 * MeanDen) * (3 * MeanNum - 2 * MeanDen) * 100
          <= 36 * MeanNum * (MeanDen - MeanNum)

SigmaWarning == "Standard deviation sigma should not be zero."

Warned(w) == \E k \in 1..Len(warnings) : warnings[k] = w

\* sigma_hop is 0: the mean of the list is 0 or 1
SigmaIsZero == MeanNum = 0 \/ MeanNum = MeanDen

\* C7: when sigma_hop is 0 the z value is computed with 1e-10 in place of
\* sigma, the sigma diagnostic is emitted, and the complete record is
\* returned with a confidence inside [0, 1] (at an end of the scale); the
\* diagnostic is emitted only when sigma_hop is 0.
C7_ZeroSigmaUsesEpsilon ==
    qpc = "done" =>
       /\ Warned(SigmaWarning) <=> SigmaIsZero
       /\ DOMAIN result = ResultKeys
       /\ SigmaIsZero =>
            /\ z_value.den = [kind |-> "pow10", exp |-> -10]
            /\ result["sigma"].of[1] = 0
            /\ result["confidence"].lo <= result["confidence"].hi
            /\ IF MeanNum = 0
               THEN result["confidence"].lo = 0 /\ result["confidence"].hi < 50000
               ELSE result["confidence"].lo > 50000 /\ result["confidence"].hi = 100000

\* every trial had heavy output probability 1 and the verdict was returned
C7_Witness ==
    /\ qpc = "done"
    /\ MeanNum = MeanDen
    /\ Len(heavy_output_prob_exp) > 1
    /\ Warned(SigmaWarning)
    /\ result["confidence"].hi = 100000

====
